---- MODULE Spec2Model ----
(***************************************************************************)
(* Model of quantize.py: per-tensor FP8 quantization, the three quantized  *)
(* linear module kinds, the name-based module rewrite loops of             *)
(* quantize_weights / quantize_activations and the __main__ pipeline.      *)
(*                                                                         *)
(* Numbers.  A floating point value is Zero, +-Inf, NaN or a finite        *)
(* monomial  s * FMax^c * Eps^d * 2^e  (s the sign, FMax = 448 the largest *)
(* float8_e4m3fn value, Eps = 1e-12 the clamp of line 38).  Products and   *)
(* reciprocals of such monomials are exact; what a storage format adds is  *)
(* overflow to Inf and underflow to Zero, decided on log2 of the magnitude *)
(* in thousandths (Lg).  Rounding of the mantissa inside the normal range  *)
(* is not modelled.                                                        *)
(***************************************************************************)
EXTENDS Integers, Sequences, FiniteSets, TLC

VARIABLES dtype, graph, nextId, pc, it, numRows, row, calls, seen, last,
          raisedIn, persisted, phaseStart, afterQW, calibEnd

vars == <<dtype, graph, nextId, pc, it, numRows, row, calls, seen, last,
          raisedIn, persisted, phaseStart, afterQW, calibEnd>>

\* ------------------------------------------------------------------ bounds
MaxRows == 2
MaxCalls == 2

\* ----------------------------------------------------------------- numbers
\* log2(448) * 1000 and log2(1e-12) * 1000
LgFMax == 8807
LgEps == -39863

Val(k, s, c, d, e) == [k |-> k, s |-> s, c |-> c, d |-> d, e |-> e]
Zero == Val("zero", 1, 0, 0, 0)
NaN == Val("nan", 1, 0, 0, 0)
Inf(s) == Val("inf", s, 0, 0, 0)
Fin(s, c, d, e) == Val("fin", s, c, d, e)
\* Python None, and the torch.empty(0) that torch.nn.Parameter(None) holds
NoneV == Val("None", 1, 0, 0, 0)
EmptyV == Val("empty", 1, 0, 0, 0)

Pow2(s, e) == Fin(s, 0, 0, e)
\* finfo(float8_e4m3fn).max, finfo.min, and the 1e-12 of line 38
FMaxV == Fin(1, 1, 0, 0)
FMinV == Fin(-1, 1, 0, 0)
EpsV == Fin(1, 0, 1, 0)

Lg(v) == v.c * LgFMax + v.d * LgEps + v.e * 1000

Sgn(v) == IF v.k = "zero" THEN 0 ELSE v.s

\* |a| < |b| for non-zero numbers
MagLt(a, b) ==
    IF a.k = "inf" THEN FALSE
    ELSE IF b.k = "inf" THEN TRUE
    ELSE Lg(a) < Lg(b)

\* a < b as the floating point comparison: FALSE when either is NaN
Lt(a, b) ==
    /\ a.k \in {"zero", "fin", "inf"}
    /\ b.k \in {"zero", "fin", "inf"}
    /\ IF Sgn(a) # Sgn(b) THEN Sgn(a) < Sgn(b)
       ELSE IF Sgn(a) = 0 THEN FALSE
       ELSE IF Sgn(a) = 1 THEN MagLt(a, b)
       ELSE MagLt(b, a)

AbsV(v) == IF v.k \in {"fin", "inf"} THEN [v EXCEPT !.s = 1] ELSE v

\* torch.finfo(dt): log2 of the largest finite value, and the exponent of the
\* smallest subnormal, both in thousandths
LgMaxFinite(dt) ==
    CASE dt = "float16" -> 15999
      [] dt = "bfloat16" -> 127994
      [] dt = "float32" -> 127999

LgMinSub(dt) ==
    CASE dt = "float16" -> -24000
      [] dt = "bfloat16" -> -133000
      [] dt = "float32" -> -149000

\* store v in format dt: overflow to Inf, underflow (at most half the smallest
\* subnormal) to Zero
Rnd(dt, v) ==
    IF v.k # "fin" THEN v
    ELSE IF Lg(v) > LgMaxFinite(dt) THEN Inf(v.s)
    ELSE IF Lg(v) <= LgMinSub(dt) - 1000 THEN Zero
    ELSE v

Mul(dt, a, b) ==
    IF a.k = "nan" \/ b.k = "nan" THEN NaN
    ELSE IF a.k = "zero" \/ b.k = "zero"
         THEN (IF a.k = "inf" \/ b.k = "inf" THEN NaN ELSE Zero)
    ELSE IF a.k = "inf" \/ b.k = "inf" THEN Inf(a.s * b.s)
    ELSE Rnd(dt, Fin(a.s * b.s, a.c + b.c, a.d + b.d, a.e + b.e))

Recip(dt, a) ==
    CASE a.k = "nan" -> NaN
      [] a.k = "zero" -> Inf(1)
      [] a.k = "inf" -> Zero
      [] a.k = "fin" -> Rnd(dt, Fin(a.s, -a.c, -a.d, -a.e))

Div(dt, a, b) ==
    IF a.k = "nan" \/ b.k = "nan" THEN NaN
    ELSE IF b.k = "zero"
         THEN (IF a.k = "zero" THEN NaN ELSE Inf(a.s))
    ELSE IF b.k = "inf"
         THEN (IF a.k = "inf" THEN NaN ELSE Zero)
    ELSE IF a.k = "zero" THEN Zero
    ELSE IF a.k = "inf" THEN Inf(a.s * b.s)
    ELSE Rnd(dt, Fin(a.s * b.s, a.c - b.c, a.d - b.d, a.e - b.e))

\* Tensor.clamp(min=lo, max=hi): NaN is propagated
Clamp(v, lo, hi) ==
    IF v.k = "nan" THEN NaN
    ELSE IF Lt(v, lo) THEN lo
    ELSE IF Lt(hi, v) THEN hi
    ELSE v

\* Tensor.clamp(min=m) on a tensor of format dt: the result is stored in dt
ClampMin(dt, v, m) ==
    IF v.k = "nan" THEN NaN
    ELSE Rnd(dt, IF Lt(v, m) THEN m ELSE v)

\* Tensor.to(torch.float8_e4m3fn): the cast does not saturate (a magnitude
\* above 448 becomes NaN, the format has no Inf); the smallest subnormal is 2^-9
CastF8(v) ==
    CASE v.k \in {"nan", "inf"} -> NaN
      [] v.k = "zero" -> Zero
      [] v.k = "fin" -> IF Lg(v) > LgFMax THEN NaN
                        ELSE IF Lg(v) <= -10000 THEN Zero
                        ELSE v

\* ----------------------------------------------------------------- tensors
MinOf(t) == CHOOSE i \in DOMAIN t : \A j \in DOMAIN t : ~Lt(t[j], t[i])
MaxOf(t) == CHOOSE i \in DOMAIN t : \A j \in DOMAIN t : ~Lt(t[i], t[j])

\* Tensor.aminmax()
AMinMax(t) == <<t[MinOf(t)], t[MaxOf(t)]>>

\* a.max(b) of two scalars
MaxV(a, b) == IF Lt(a, b) THEN b ELSE a

\* the product tensor * scale of line 42, clamped to the float8 range
ScaleClamp(dt, x, scale) == Clamp(Mul(dt, x, scale), FMinV, FMaxV)

\* per_tensor_quantize(tensor), tensor stored in format dt:
\* the pair [q |-> float8 tensor, scale |-> inverse scale as float32]
per_tensor_quantize(dt, tensor) ==
    LET mm == AMinMax(tensor)
        amax == MaxV(AbsV(mm[1]), AbsV(mm[2]))
        \* finfo.max / t is Tensor.__rtruediv__: t.reciprocal() * finfo.max
        scale == Mul(dt, Recip(dt, ClampMin(dt, amax, EpsV)), FMaxV)
    IN [q |-> [i \in DOMAIN tensor |-> CastF8(ScaleClamp(dt, tensor[i], scale))],
        scale |-> Recip("float32", scale)]

\* FP8StaticLinear.per_tensor_quantize(tensor, inv_scale)
static_per_tensor_quantize(dt, tensor, inv_scale) ==
    [i \in DOMAIN tensor |->
        CastF8(Clamp(Div(dt, tensor[i], inv_scale), FMinV, FMaxV))]

\* ----------------------------------------------------------------- modules
\* A module object: its class, its identity, and its parameters/attributes
Module(kind, id, weight, weight_scale, act_scale) ==
    [kind |-> kind, id |-> id, weight |-> weight,
     weight_scale |-> weight_scale, act_scale |-> act_scale]

\* torch.nn.Parameter(data): Parameter(None) holds torch.empty(0)
Parameter(data) == IF data = NoneV THEN EmptyV ELSE data

Container(id) == Module("Container", id, <<>>, NoneV, NoneV)
Norm(id) == Module("Norm", id, <<>>, NoneV, NoneV)
Linear(id, weight) == Module("Linear", id, weight, NoneV, NoneV)

FP8DynamicLinear(id, qweight, scale) ==
    Module("FP8DynamicLinear", id, qweight, Parameter(scale), NoneV)

FP8StaticLinearQuantizer(id, qweight, weight_scale) ==
    Module("FP8StaticLinearQuantizer", id, qweight, Parameter(weight_scale), NoneV)

FP8StaticLinear(id, qweight, weight_scale, act_scale) ==
    Module("FP8StaticLinear", id, qweight, Parameter(weight_scale),
           Parameter(act_scale))

\* variant: FP8DynamicLinear derived from torch.nn.Linear
IsLinearOrDynamic(m) == m.kind \in {"Linear", "FP8DynamicLinear"}
\* isinstance(m, torch.nn.Linear): none of the FP8 classes derives from it
IsLinear(m) == m.kind = "Linear"
\* variant: the loop of line 167 testing for torch.nn.Linear
IsDynamicAsLinear(m) == m.kind = "Linear"
\* isinstance(m, FP8DynamicLinear)
IsDynamic(m) == m.kind = "FP8DynamicLinear"
\* isinstance(m, FP8StaticLinearQuantizer), isinstance(m, FP8StaticLinear)
IsQuantizer(m) == m.kind = "FP8StaticLinearQuantizer"
IsStatic(m) == m.kind = "FP8StaticLinear"

\* -------------------------------------------------------------- the graph
\* graph maps the dotted name of every module of `model` (a sequence of name
\* components) to the module bound there.  model.model is the subtree the
\* rewrite loops traverse.
\* variant: the loops traversing model.named_modules()
SubRootTop == <<>>
\* model.model
SubRoot == <<"model">>

IsPrefix(p, q) == Len(p) <= Len(q) /\ SubSeq(q, 1, Len(p)) = p
Abs(name) == SubRoot \o name
Rel(p) == SubSeq(p, Len(SubRoot) + 1, Len(p))
InSubtree(p) == IsPrefix(SubRoot, p)

\* registration order of sibling names in Module._modules
Ord(c) ==
    CASE c = "model" -> 1
      [] c = "lm_head" -> 2
      [] c = "a" -> 1
      [] c = "b" -> 1
      [] c = "d" -> 2
      [] c = "c" -> 3
      [] OTHER -> 4

\* p is yielded before q by named_modules(): parents first, then children in
\* registration order
PreLess(p, q) ==
    /\ p # q
    /\ \/ IsPrefix(p, q)
       \/ /\ ~IsPrefix(q, p)
          /\ LET i == CHOOSE i \in 1..Len(p) :
                          /\ i <= Len(q)
                          /\ p[i] # q[i]
                          /\ \A j \in 1..(i - 1) : p[j] = q[j]
             IN Ord(p[i]) < Ord(q[i])

\* model.model.named_modules(): the names (relative to model.model) the
\* generator has still to yield, read from the graph as it is now
Names(g) == {Rel(p) : p \in {q \in DOMAIN g : InSubtree(q)}}
Remaining(g, i) ==
    IF ~i.started THEN Names(g) ELSE {n \in Names(g) : PreLess(i.last, n)}
HasNext(g, i) == Remaining(g, i) # {}
NextName(g, i) ==
    CHOOSE n \in Remaining(g, i) : \A m \in Remaining(g, i) : m = n \/ PreLess(n, m)
Fresh == [started |-> FALSE, last |-> <<>>]
Yielded(name) == [started |-> TRUE, last |-> name]

\* lines 154-161: parent_name / child_name of a dotted name
HasDot(name) == Len(name) >= 2
\* variant: every name rebound on model.model itself
ParentNameRoot(name) == <<>>
ParentName(name) == IF HasDot(name) THEN SubSeq(name, 1, Len(name) - 1) ELSE <<>>
ChildName(name) == IF Len(name) = 0 THEN "" ELSE name[Len(name)]

\* model.model.get_submodule(parent_name) resolves
Resolves(g, parent_name) == Abs(parent_name) \in DOMAIN g

\* setattr(parent, child_name, m): binds m at parent.child_name; what was
\* bound there, with everything below it, is no longer in the graph
SetAttr(g, parent_name, child_name, m) ==
    LET tgt == Append(Abs(parent_name), child_name)
        dom == {p \in DOMAIN g : ~IsPrefix(tgt, p)} \cup {tgt}
    IN [p \in dom |-> IF p = tgt THEN m ELSE g[p]]

\* lines 154-162 (and 173-181, 194-202): rebind `name` to m
Rebind(g, name, m) == SetAttr(g, ParentName(name), ChildName(name), m)

\* ------------------------------------------------------------------ inputs
Two == Pow2(1, 1)
One == Pow2(1, 0)
NegTwo == Pow2(-1, 1)
NegOne == Pow2(-1, 0)
Tiny == Pow2(1, -8)

\* weight tensors a checkpoint may hold, and inputs a layer may be called on
Weights == {<<Two, Two>>, <<Zero, Zero>>, <<NegTwo, Tiny>>}
Inputs == {<<Two, NegOne>>, <<One, Zero>>, <<Zero, Zero>>}
Dtypes == {"float16", "bfloat16", "float32"}

NoCall == [layer |-> <<>>, kind |-> "none", x |-> <<>>, q |-> <<>>,
           x_scale |-> NoneV, A_scale |-> NoneV, B_scale |-> NoneV]

\* the arguments of one fp8_gemm call (lines 50-67) made by `layer`
GemmCall(layer, kind, x, q, x_scale, A_scale, B_scale) ==
    [layer |-> layer, kind |-> kind, x |-> x, q |-> q,
     x_scale |-> x_scale, A_scale |-> A_scale, B_scale |-> B_scale]

PathC == <<"model", "a", "b", "c">>
PathD == <<"model", "d">>
LmHead == <<"lm_head">>

Paths == {<<>>, <<"lm_head">>, <<"model">>, <<"model", "a">>, <<"model", "a", "b">>,
          <<"model", "a", "b", "c">>, <<"model", "d">>}

InitGraph(wc, wd, dIsLinear) ==
    [p \in Paths |->
        CASE p = <<>> -> Container(0)
          [] p = <<"lm_head">> -> Linear(1, <<Two, NegOne>>)
          [] p = <<"model">> -> Container(2)
          [] p = <<"model", "a">> -> Container(3)
          [] p = <<"model", "a", "b">> -> Container(4)
          [] p = <<"model", "a", "b", "c">> -> Linear(5, wc)
          [] p = <<"model", "d">> -> IF dIsLinear THEN Linear(6, wd) ELSE Norm(6)]

\* what a rewrite loop started from: the graph, the class it matches and the
\* first identity it will hand out
Phase(g, kind, id) == [g |-> g, kind |-> kind, nextId |-> id]

Init ==
    /\ dtype \in Dtypes
    /\ \E wc \in Weights, wd \in Weights, dIsLinear \in BOOLEAN :
          /\ dIsLinear \/ wd = wc
          /\ graph = InitGraph(wc, wd, dIsLinear)
    /\ nextId = 7
    /\ pc = "qw"
    /\ it = Fresh
    /\ numRows \in 0..MaxRows
    /\ row = 0
    /\ calls = 0
    /\ seen = [p \in Paths |-> {}]
    /\ last = NoCall
    /\ raisedIn = "none"
    /\ persisted = <<>>
    /\ phaseStart = Phase(graph, "Linear", 7)
    /\ afterQW = <<>>
    /\ calibEnd = <<>>

\* an exception raised at program position p: nothing in quantize.py catches
\* it, so it leaves quantize_activations and __main__
\* variant: the exception caught and the loop continued
OnRaiseSwallow(p) == p
OnRaise(p) == "failed"

\* ------------------------------------------------ quantize_weights (148-162)
\* one iteration of the loop of line 149
QWStep ==
    /\ pc \in {"qw", "qw2"}
    /\ HasNext(graph, it)
    /\ LET name == NextName(graph, it)
           linear == graph[Abs(name)]
       IN /\ it' = Yielded(name)
          /\ IF ~IsLinear(linear)
             THEN UNCHANGED <<graph, nextId, pc, raisedIn>>
             ELSE LET r == per_tensor_quantize(dtype, linear.weight)
                      quant_linear == FP8DynamicLinear(nextId, r.q, r.scale)
                  IN IF Resolves(graph, ParentName(name))
                     THEN /\ graph' = Rebind(graph, name, quant_linear)
                          /\ nextId' = nextId + 1
                          /\ UNCHANGED <<pc, raisedIn>>
                     ELSE /\ pc' = OnRaise(pc)
                          /\ raisedIn' = "rewrite"
                          /\ UNCHANGED <<graph, nextId>>
    /\ UNCHANGED <<dtype, numRows, row, calls, seen, last, persisted,
                   phaseStart, afterQW, calibEnd>>

\* the loop is exhausted: quantize_weights returns to line 248
QWReturn ==
    /\ pc = "qw"
    /\ ~HasNext(graph, it)
    /\ pc' = "gen1"
    /\ afterQW' = <<graph>>
    /\ calls' = 0
    /\ UNCHANGED <<dtype, graph, nextId, it, numRows, row, seen, last,
                   raisedIn, persisted, phaseStart, calibEnd>>

\* ------------------------------------------ model.generate after Phase 1 (248)
\* FP8DynamicLinear.forward(x) of the layer named p (lines 135-145)
DynamicForward(p, x) ==
    /\ pc = "gen1"
    /\ calls < MaxCalls
    /\ p \in DOMAIN graph
    /\ IsDynamic(graph[p])
    /\ LET r == per_tensor_quantize(dtype, x)
       IN last' = GemmCall(p, "FP8DynamicLinear", x, r.q, r.scale, r.scale,
                           graph[p].weight_scale)
    /\ calls' = calls + 1
    /\ UNCHANGED <<dtype, graph, nextId, pc, it, numRows, row, seen, raisedIn,
                   persisted, phaseStart, afterQW, calibEnd>>

\* generate returns; quantize_activations is entered (line 252)
Gen1Done ==
    /\ pc = "gen1"
    /\ pc' = "qa_replace"
    /\ it' = Fresh
    /\ phaseStart' = Phase(graph, "FP8DynamicLinear", nextId)
    /\ calls' = 0
    /\ UNCHANGED <<dtype, graph, nextId, numRows, row, seen, last, raisedIn,
                   persisted, afterQW, calibEnd>>

\* --------------------------------------- quantize_activations (165-202)
\* one iteration of the loop of line 167
QAReplaceStep ==
    /\ pc = "qa_replace"
    /\ HasNext(graph, it)
    /\ LET name == NextName(graph, it)
           dynamic_quant_linear == graph[Abs(name)]
       IN /\ it' = Yielded(name)
          /\ IF ~IsDynamic(dynamic_quant_linear)
             THEN UNCHANGED <<graph, nextId, pc, raisedIn>>
             ELSE LET quantizer ==
                          FP8StaticLinearQuantizer(nextId,
                              dynamic_quant_linear.weight,
                              dynamic_quant_linear.weight_scale)
                  IN IF Resolves(graph, ParentName(name))
                     THEN /\ graph' = Rebind(graph, name, quantizer)
                          /\ nextId' = nextId + 1
                          /\ UNCHANGED <<pc, raisedIn>>
                     ELSE /\ pc' = OnRaise(pc)
                          /\ raisedIn' = "rewrite"
                          /\ UNCHANGED <<graph, nextId>>
    /\ UNCHANGED <<dtype, numRows, row, calls, seen, last, persisted,
                   phaseStart, afterQW, calibEnd>>

\* the first loop is exhausted: the calibration loop of line 184 starts, or,
\* with no rows, the freeze loop of line 188
QAReplaceDone ==
    /\ pc = "qa_replace"
    /\ ~HasNext(graph, it)
    /\ row' = 0
    /\ calls' = 0
    /\ it' = Fresh
    /\ IF numRows = 0
       THEN /\ pc' = "qa_freeze"
            /\ calibEnd' = <<graph>>
            /\ phaseStart' = Phase(graph, "FP8StaticLinearQuantizer", nextId)
       ELSE /\ pc' = "qa_calib"
            /\ UNCHANGED <<calibEnd, phaseStart>>
    /\ UNCHANGED <<dtype, graph, nextId, numRows, seen, last, raisedIn,
                   persisted, afterQW>>

\* lines 82-85: the running activation scale after observing x_act_scale
\* variant: the latest scale always kept
UpdateActScaleLast(act_scale, x_act_scale) == x_act_scale
UpdateActScale(act_scale, x_act_scale) ==
    IF act_scale = NoneV THEN Parameter(x_act_scale)
    ELSE IF Lt(act_scale, x_act_scale) THEN Parameter(x_act_scale)
    ELSE act_scale

\* FP8StaticLinearQuantizer.forward(x) of the layer named p (lines 77-96),
\* called by the model's forward pass on calibration row `row`
ObserverForward(p, x) ==
    /\ pc = "qa_calib"
    /\ calls < MaxCalls
    /\ p \in DOMAIN graph
    /\ IsQuantizer(graph[p])
    /\ LET r == per_tensor_quantize(dtype, x)
           act_scale == UpdateActScale(graph[p].act_scale, r.scale)
       IN /\ graph' = [graph EXCEPT ![p].act_scale = act_scale]
          /\ last' = GemmCall(p, "FP8StaticLinearQuantizer", x, r.q, r.scale,
                              act_scale, graph[p].weight_scale)
          /\ seen' = [seen EXCEPT ![p] = @ \cup {r.scale}]
    /\ calls' = calls + 1
    /\ UNCHANGED <<dtype, nextId, pc, it, numRows, row, raisedIn, persisted,
                   phaseStart, afterQW, calibEnd>>

\* the forward pass of line 185 returns; after the last row the freeze loop
\* of line 188 starts
CalibRowDone ==
    /\ pc = "qa_calib"
    /\ row < numRows
    /\ row' = row + 1
    /\ calls' = 0
    /\ IF row + 1 = numRows
       THEN /\ pc' = "qa_freeze"
            /\ it' = Fresh
            /\ calibEnd' = <<graph>>
            /\ phaseStart' = Phase(graph, "FP8StaticLinearQuantizer", nextId)
       ELSE UNCHANGED <<pc, it, calibEnd, phaseStart>>
    /\ UNCHANGED <<dtype, graph, nextId, numRows, seen, last, raisedIn,
                   persisted, afterQW>>

\* the forward pass of line 185 raises
CalibRaise ==
    /\ pc = "qa_calib"
    /\ row < numRows
    /\ pc' = OnRaise(pc)
    /\ raisedIn' = "calib"
    /\ UNCHANGED <<dtype, graph, nextId, it, numRows, row, calls, seen, last,
                   persisted, phaseStart, afterQW, calibEnd>>

\* one iteration of the loop of line 188
QAFreezeStep ==
    /\ pc = "qa_freeze"
    /\ HasNext(graph, it)
    /\ LET name == NextName(graph, it)
           quantizer == graph[Abs(name)]
       IN /\ it' = Yielded(name)
          /\ IF ~IsQuantizer(quantizer)
             THEN UNCHANGED <<graph, nextId, pc, raisedIn>>
             ELSE LET static_proj ==
                          FP8StaticLinear(nextId, quantizer.weight,
                              quantizer.weight_scale, quantizer.act_scale)
                  IN IF Resolves(graph, ParentName(name))
                     THEN /\ graph' = Rebind(graph, name, static_proj)
                          /\ nextId' = nextId + 1
                          /\ UNCHANGED <<pc, raisedIn>>
                     ELSE /\ pc' = OnRaise(pc)
                          /\ raisedIn' = "rewrite"
                          /\ UNCHANGED <<graph, nextId>>
    /\ UNCHANGED <<dtype, numRows, row, calls, seen, last, persisted,
                   phaseStart, afterQW, calibEnd>>

\* quantize_activations returns to line 253
QAReturn ==
    /\ pc = "qa_freeze"
    /\ ~HasNext(graph, it)
    /\ pc' = "gen2"
    /\ calls' = 0
    /\ UNCHANGED <<dtype, graph, nextId, it, numRows, row, seen, last,
                   raisedIn, persisted, phaseStart, afterQW, calibEnd>>

\* ------------------------------------------ model.generate after Phase 3 (253)
\* FP8StaticLinear.forward(x) of the layer named p (lines 116-126); dividing x
\* by the empty act_scale of a layer that was never calibrated raises
StaticForward(p, x) ==
    /\ pc = "gen2"
    /\ calls < MaxCalls
    /\ p \in DOMAIN graph
    /\ IsStatic(graph[p])
    /\ IF graph[p].act_scale = EmptyV
       THEN /\ pc' = OnRaise(pc)
            /\ raisedIn' = "generate"
            /\ UNCHANGED last
       ELSE /\ last' = GemmCall(p, "FP8StaticLinear", x,
                           static_per_tensor_quantize(dtype, x, graph[p].act_scale),
                           NoneV, graph[p].act_scale, graph[p].weight_scale)
            /\ UNCHANGED <<pc, raisedIn>>
    /\ calls' = calls + 1
    /\ UNCHANGED <<dtype, graph, nextId, it, numRows, row, seen, persisted,
                   phaseStart, afterQW, calibEnd>>

Gen2Done ==
    /\ pc = "gen2"
    /\ pc' = "save"
    /\ UNCHANGED <<dtype, graph, nextId, it, numRows, row, calls, seen, last,
                   raisedIn, persisted, phaseStart, afterQW, calibEnd>>

\* lines 257-261: model.config.update and save_pretrained
Save ==
    /\ pc = "save"
    /\ persisted' = <<graph>>
    /\ pc' = "done"
    /\ UNCHANGED <<dtype, graph, nextId, it, numRows, row, calls, seen, last,
                   raisedIn, phaseStart, afterQW, calibEnd>>

Next ==
    \/ QWStep
    \/ QWReturn
    \/ \E p \in Paths, x \in Inputs : DynamicForward(p, x)
    \/ Gen1Done
    \/ QAReplaceStep
    \/ QAReplaceDone
    \/ \E p \in Paths, x \in Inputs : ObserverForward(p, x)
    \/ CalibRowDone
    \/ CalibRaise
    \/ QAFreezeStep
    \/ QAReturn
    \/ \E p \in Paths, x \in Inputs : StaticForward(p, x)
    \/ Gen2Done
    \/ Save

Spec == Init /\ [][Next]_vars

\* ------------------------------------- quantize_weights applied a second time
\* quantize_weights(model) returns and is called again on the same model
QWReturnAgain ==
    /\ pc = "qw"
    /\ ~HasNext(graph, it)
    /\ pc' = "qw2"
    /\ it' = Fresh
    /\ afterQW' = <<graph>>
    /\ phaseStart' = Phase(graph, "Linear", nextId)
    /\ UNCHANGED <<dtype, graph, nextId, numRows, row, calls, seen, last,
                   raisedIn, persisted, calibEnd>>

\* the second call returns
QWReapplied ==
    /\ pc = "qw2"
    /\ ~HasNext(graph, it)
    /\ pc' = "reapplied"
    /\ UNCHANGED <<dtype, graph, nextId, it, numRows, row, calls, seen, last,
                   raisedIn, persisted, phaseStart, afterQW, calibEnd>>

NextReapply == QWStep \/ QWReturnAgain \/ QWReapplied

SpecReapply == Init /\ [][NextReapply]_vars

\* ----------------------------------------------------------------- helpers

Chain == {"Linear", "FP8DynamicLinear", "FP8StaticLinearQuantizer",
          "FP8StaticLinear"}
Quantized == Chain \ {"Linear"}

KindRank(kind) ==
    CASE kind = "Linear" -> 0
      [] kind = "FP8DynamicLinear" -> 1
      [] kind = "FP8StaticLinearQuantizer" -> 2
      [] kind = "FP8StaticLinear" -> 3

\* the class a rewrite loop installs for the class it matches
Replacement(kind) ==
    CASE kind = "Linear" -> "FP8DynamicLinear"
      [] kind = "FP8DynamicLinear" -> "FP8StaticLinearQuantizer"
      [] kind = "FP8StaticLinearQuantizer" -> "FP8StaticLinear"

InRange(v) == v.k \in {"zero", "fin"} /\ ~Lt(FMaxV, v) /\ ~Lt(v, FMinV)
Positive(v) == Lt(Zero, v)

\* ------------------------------------------------------------------ claims

\* the state part of C1: an observer's act_scale is absent until its first
\* forward call, afterwards it is the maximum of the per-call scales seen
C1_RunningMaxState ==
    \A p \in DOMAIN graph :
        graph[p].kind = "FP8StaticLinearQuantizer" =>
            IF seen[p] = {}
            THEN graph[p].act_scale = NoneV
            ELSE /\ graph[p].act_scale \in seen[p]
                 /\ \A s \in seen[p] : ~Lt(graph[p].act_scale, s)

\* the step part of C1: no step lowers an observer's act_scale
C1_NonDecreasingStep ==
    \A p \in DOMAIN graph :
        (/\ graph[p].kind = "FP8StaticLinearQuantizer"
         /\ p \in DOMAIN graph'
         /\ graph'[p].kind = "FP8StaticLinearQuantizer"
         /\ graph[p].act_scale # NoneV)
        => ~Lt(graph'[p].act_scale, graph[p].act_scale)

\* C1: for every observer, act_scale is absent until its first forward call;
\* afterwards it is one of the per-call scales and no per-call scale exceeds
\* it (it is their maximum; after one call it is that call's scale), and no
\* forward call lowers it.
C1_RunningMax == [](C1_RunningMaxState) /\ [][C1_NonDecreasingStep]_vars

\* an observer that has seen two different per-call scales, the latest one
\* smaller than the scale it keeps
C1_Witness ==
    \E p \in DOMAIN graph :
        /\ graph[p].kind = "FP8StaticLinearQuantizer"
        /\ Cardinality(seen[p]) >= 2
        /\ last.layer = p
        /\ Lt(last.x_scale, graph[p].act_scale)

\* C2: no FP8StaticLinear is constructed from an observer whose act_scale is
\* absent (an observer that was never called during calibration).
C2_UncalibratedRejected ==
    \A p \in DOMAIN graph :
        graph[p].kind = "FP8StaticLinear" =>
            /\ calibEnd # <<>>
            /\ calibEnd[1][p].act_scale # NoneV
            /\ graph[p].act_scale # EmptyV

\* C3: during and after every rewrite loop the set of module names is the one
\* the loop started from; a module the loop's predicate does not match is the
\* object it was, and a matched one is either still that object or a new
\* module of the replacement class bound at the same name.
C3_StructurePreserved ==
    /\ DOMAIN graph = DOMAIN phaseStart.g
    /\ \A p \in DOMAIN phaseStart.g :
          LET old == phaseStart.g[p]
          IN /\ p \in DOMAIN graph
             /\ IF old.kind = phaseStart.kind /\ IsPrefix(<<"model">>, p)
                THEN \/ graph[p].id = old.id
                     \/ /\ graph[p].id >= phaseStart.nextId
                        /\ graph[p].kind = Replacement(old.kind)
                ELSE /\ graph[p].id = old.id
                     /\ graph[p].kind = old.kind

\* a.b.c has been replaced in each of the three loops, a and a.b are the
\* containers they were
C3_Witness ==
    /\ pc = "gen2"
    /\ graph[PathC].kind = "FP8StaticLinear"
    /\ graph[PathC].id >= phaseStart.nextId
    /\ graph[<<"model", "a">>].id = 3
    /\ graph[<<"model", "a", "b">>].id = 4

C5_ForwardStep ==
    \A p \in DOMAIN graph :
        /\ p \in DOMAIN graph'
        /\ IF graph[p].kind \in Chain
           THEN /\ graph'[p].kind \in Chain
                /\ KindRank(graph'[p].kind) >= KindRank(graph[p].kind)
           ELSE graph'[p].kind = graph[p].kind

\* the state part of C5: the phases do not overlap
C5_PhasesSeparate ==
    /\ pc = "qa_calib" =>
          \A p \in DOMAIN graph : IsPrefix(<<"model">>, p) => graph[p].kind # "FP8DynamicLinear"
    /\ pc \in {"gen2", "save", "done"} =>
          \A p \in DOMAIN graph : graph[p].kind # "FP8StaticLinearQuantizer"

\* C5: a layer's class only moves forward along Linear -> FP8DynamicLinear ->
\* FP8StaticLinearQuantizer -> FP8StaticLinear and other modules keep their
\* class; while calibration rows run no FP8DynamicLinear is left in
\* model.model, and once quantize_activations has returned no
\* FP8StaticLinearQuantizer is left.
C5_OneDirectional == [][C5_ForwardStep]_vars /\ [](C5_PhasesSeparate)

\* both layers went through all four classes and a.b.c was calibrated
C5_Witness ==
    /\ pc = "gen2"
    /\ graph[PathC].kind = "FP8StaticLinear"
    /\ graph[PathD].kind = "FP8StaticLinear"
    /\ seen[PathC] # {}

\* the state part of C6: what holds once a calibration pass has raised
C6_AbortedState ==
    raisedIn = "calib" =>
        /\ pc = "failed"
        /\ persisted = <<>>
        /\ calibEnd = <<>>
        /\ row < numRows
        /\ \A p \in DOMAIN graph : graph[p].kind # "FP8StaticLinear"

\* the step part of C6: after the raise nothing runs any more
C6_AbortedStep ==
    raisedIn = "calib" =>
        UNCHANGED <<graph, row, calls, seen, last, persisted, pc>>

\* C6: once a calibration forward pass has raised, the run has failed and
\* stays so: no row is run again or later, the graph keeps its observers (no
\* FP8StaticLinear exists), and nothing is persisted.
C6_RaiseAborts == [](C6_AbortedState) /\ [][C6_AbortedStep]_vars

\* the second row raised after an observer had been updated
C6_Witness ==
    /\ raisedIn = "calib"
    /\ row = 1
    /\ \E p \in DOMAIN graph : graph[p].kind = "FP8StaticLinearQuantizer" /\ seen[p] # {}

\* C7: during and after a second quantize_weights call the graph (every
\* module object, weight and weight scale) is what the first call left, no
\* new module has been created and no module of model.model is a Linear.
C7_SecondPassNoOp ==
    pc \in {"qw2", "reapplied"} =>
        /\ graph = phaseStart.g
        /\ graph = afterQW[1]
        /\ nextId = phaseStart.nextId
        /\ \A p \in DOMAIN graph : IsPrefix(<<"model">>, p) => graph[p].kind # "Linear"

\* the second call has returned on a graph the first call had quantized
C7_Witness ==
    /\ pc = "reapplied"
    /\ graph[PathC].kind = "FP8DynamicLinear"
    /\ graph[PathD].kind = "FP8DynamicLinear"

\* C8: every scale per_tensor_quantize has returned (the weight scale of each
\* quantized layer, the activation scale of the latest forward call) is
\* strictly positive, and every quantized element lies in [-448, 448].
C8_ScalePositiveInRange ==
    /\ \A p \in DOMAIN graph :
          graph[p].kind \in Quantized =>
              /\ Positive(graph[p].weight_scale)
              /\ \A i \in DOMAIN graph[p].weight : InRange(graph[p].weight[i])
    /\ last.kind \in {"FP8DynamicLinear", "FP8StaticLinearQuantizer"} =>
          /\ Positive(last.x_scale)
          /\ \A i \in DOMAIN last.q : InRange(last.q[i])

\* C9: the A_scale an observer's forward call passes to fp8_gemm is the scale
\* per_tensor_quantize computed for that call's input.
C9_GemmUsesCallScale ==
    last.kind = "FP8StaticLinearQuantizer" => last.A_scale = last.x_scale

\* C10: in every state, a quantized layer's weight and weight scale are those
\* Phase 1 fixed, and a FP8StaticLinear's act_scale is its observer's
\* act_scale at the end of calibration (so no later forward call changes it).
C10_Carried ==
    \A p \in DOMAIN graph :
        /\ (graph[p].kind \in Quantized /\ afterQW # <<>>) =>
              /\ graph[p].weight = afterQW[1][p].weight
              /\ graph[p].weight_scale = afterQW[1][p].weight_scale
        /\ graph[p].kind = "FP8StaticLinear" =>
              graph[p].act_scale = calibEnd[1][p].act_scale

====
